---- MODULE Spec2Model ----
(***************************************************************************)
(* Model of src/data_management/DataLoader.py: the DataLoader base class   *)
(* (split_data, normalization, save_data, load_from_pickle, get_classes)   *)
(* and its three dataset variants SEALoader, KDDCupLoader, UsenetLoader.   *)
(*                                                                         *)
(* Conventions.                                                            *)
(*  - A Python attribute that may be None is a sequence of length 0 or 1:  *)
(*    None is << >>, a value v is << v >>.                                 *)
(*  - An array is a sequence of rows, a row a sequence of cells.           *)
(*  - A float is an exact rational << numerator, denominator >> in lowest  *)
(*    terms; floating-point rounding is not modelled.                      *)
(*  - A raised exception is recorded in err; the assignments executed      *)
(*    before the raise are kept, as in Python.                             *)
(*  - last_call, scaler_fits and split_input are history variables: the    *)
(*    method called last, the arrays MinMaxScaler.fit_transform was called *)
(*    on, and the X and y the last split_data started from.                *)
(*  - pc is "new" while a constructor has yet to run, "ready" once it has  *)
(*    returned an object and "failed" when it raised.                      *)
(***************************************************************************)
EXTENDS Integers, Sequences, FiniteSets, TLC

VARIABLES fs, data_path, percentage_historical_data, X, y, X_historical,
          y_historical, list_classes, symbolic_df, symbolic_encoder, pc,
          last_call, err, ret, scaler_fits, split_input

vars == <<fs, data_path, percentage_historical_data, X, y, X_historical,
          y_historical, list_classes, symbolic_df, symbolic_encoder, pc,
          last_call, err, ret, scaler_fits, split_input>>

\* ------------------------------------------------------------------ bounds
\* Largest number of records in a raw file.
MaxN == 3

\* Largest number of records in a raw file of the continuous-feature scenario.
MaxSEA == 4

\* Largest number of records in a raw file of the binary-indicator scenario.
MaxUsenet == 3

\* Largest number of records in a raw file of the categorical scenario.
MaxKDD == 3

\* ------------------------------------------------------- Python primitives
None == << >>

Some(v) == << v >>

\* s[:n] for n >= 0
SliceTo(s, n) == SubSeq(s, 1, IF n < Len(s) THEN n ELSE Len(s))

\* s[k:] for k >= 0
SliceFrom(s, k) == SubSeq(s, k + 1, Len(s))

\* the set of the elements of a sequence
Elems(s) == {s[i] : i \in DOMAIN s}

\* all sequences over S of length lo..hi
SeqsOf(S, lo, hi) == UNION {[1..n -> S] : n \in lo..hi}

\* ------------------------------------------------------- exact rationals
RECURSIVE GCD(_, _)
GCD(a, b) == IF b = 0 THEN a ELSE GCD(b, a % b)

Abs(a) == IF a < 0 THEN -a ELSE a

Rat(n, d) ==
    LET g == GCD(Abs(n), Abs(d))
        s == IF d < 0 THEN -1 ELSE 1
    IN  <<(s * n) \div g, (s * d) \div g>>

RatOfInt(i) == <<i, 1>>

RatSub(a, b) == Rat(a[1] * b[2] - b[1] * a[2], a[2] * b[2])

RatDiv(a, b) == Rat(a[1] * b[2], a[2] * b[1])

RatLeq(a, b) == a[1] * b[2] <= b[1] * a[2]

\* ------------------------------------------------------------ MinMaxScaler
\* the cells of column j of a non-empty array
Column(M, j) == {M[i][j] : i \in DOMAIN M}

ColMin(M, j) == CHOOSE v \in Column(M, j) : \A w \in Column(M, j) : RatLeq(v, w)

ColMax(M, j) == CHOOSE v \in Column(M, j) : \A w \in Column(M, j) : RatLeq(w, v)

\* MinMaxScaler().fit(M): per-feature minimum and range of a non-empty array;
\* a zero range is replaced by 1 (the library's constant-feature convention).
MinMaxFit(M) ==
    [j \in DOMAIN M[1] |->
        LET lo == ColMin(M, j)
            rg == RatSub(ColMax(M, j), lo)
        IN  [data_min |-> lo,
             data_range |-> IF rg = RatOfInt(0) THEN RatOfInt(1) ELSE rg]]

\* mms.transform(M): (x - data_min) / data_range, feature by feature
MinMaxTransform(mms, M) ==
    [i \in DOMAIN M |->
        [j \in DOMAIN M[i] |->
            RatDiv(RatSub(M[i][j], mms[j].data_min), mms[j].data_range)]]

\* --------------------------------------------------------------- DataLoader
Paths == {"data", "cache"}

Keys == <<"X", "y", "X_historical", "y_historical">>

NoFile == [kind |-> "none"]

\* a raw delimited file; schema names the dataset it belongs to
CsvFile(schema, rows) == [kind |-> "csv", schema |-> schema, rows |-> rows]

PickleFile(data) == [kind |-> "pickle", data |-> data]

\* the attributes of the loader object the methods read and write
Self ==
    [X |-> X, y |-> y, X_historical |-> X_historical,
     y_historical |-> y_historical, list_classes |-> list_classes,
     scaler_fits |-> scaler_fits, split_input |-> split_input, err |-> "none"]

Store(self) ==
    /\ X' = self.X
    /\ y' = self.y
    /\ X_historical' = self.X_historical
    /\ y_historical' = self.y_historical
    /\ list_classes' = self.list_classes
    /\ scaler_fits' = self.scaler_fits
    /\ split_input' = self.split_input
    /\ err' = self.err

\* int(self.percentage_historical_data * len(self.X))
NumberHistoricalData(percentage, n) == (percentage[1] * n) \div percentage[2]

\* split_data keeping the boundary record in the stream partition
SplitData_NoGap(self, percentage) ==
    IF self.X = None
    THEN [self EXCEPT !.err = "TypeError", !.split_input = Some(<<self.X, self.y>>)]
    ELSE LET number_histocal_data == (percentage[1] * Len(self.X[1])) \div percentage[2]
             s1 == [self EXCEPT !.X_historical = Some(SliceTo(self.X[1], number_histocal_data)),
                                !.split_input = Some(<<self.X, self.y>>)]
         IN  IF self.y = None
             THEN [s1 EXCEPT !.err = "TypeError"]
             ELSE [s1 EXCEPT
                     !.y_historical = Some(SliceTo(self.y[1], number_histocal_data)),
                     !.X = Some(SliceFrom(self.X[1], number_histocal_data)),
                     !.y = Some(SliceFrom(self.y[1], number_histocal_data))]

\* DataLoader.split_data; split_input records the X and y the call started from
SplitData(self, percentage) ==
    IF self.X = None
    THEN [self EXCEPT !.err = "TypeError", !.split_input = Some(<<self.X, self.y>>)]
    ELSE LET number_histocal_data == NumberHistoricalData(percentage, Len(self.X[1]))
             s1 == [self EXCEPT !.X_historical = Some(SliceTo(self.X[1], number_histocal_data)),
                                !.split_input = Some(<<self.X, self.y>>)]
         IN  IF self.y = None
             THEN [s1 EXCEPT !.err = "TypeError"]
             ELSE [s1 EXCEPT
                     !.y_historical = Some(SliceTo(self.y[1], number_histocal_data)),
                     !.X = Some(SliceFrom(self.X[1], number_histocal_data + 1)),
                     !.y = Some(SliceFrom(self.y[1], number_histocal_data + 1))]

\* what check_array rejects: None and an array of 0 samples
NoSamples(a) == a = None \/ Len(a[1]) = 0

\* DataLoader.normalization
Normalization(self) ==
    IF NoSamples(self.X_historical)
    THEN [self EXCEPT !.err = "ValueError"]
    ELSE LET mms == MinMaxFit(self.X_historical[1])
             s1 == [self EXCEPT
                      !.X_historical = Some(MinMaxTransform(mms, self.X_historical[1])),
                      !.scaler_fits = self.scaler_fits \cup {"X_historical"}]
         IN  IF \/ NoSamples(self.X)
                \/ Len(self.X[1][1]) # Len(self.X_historical[1][1])
             THEN [s1 EXCEPT !.err = "ValueError"]
             ELSE [s1 EXCEPT !.X = Some(MinMaxTransform(mms, self.X[1]))]

\* DataLoader.load_from_pickle: the four assignments run in order and stop
\* at the first key the unpickled dict lacks.
RECURSIVE ReadKeys(_, _, _)
ReadKeys(self, data, k) ==
    IF k > Len(Keys) THEN self
    ELSE IF Keys[k] \notin DOMAIN data THEN [self EXCEPT !.err = "KeyError"]
    ELSE ReadKeys([self EXCEPT ![Keys[k]] = data[Keys[k]]], data, k + 1)

LoadFromPickle(self, file) ==
    IF file.kind = "none" THEN [self EXCEPT !.err = "FileNotFoundError"]
    ELSE IF file.kind # "pickle" THEN [self EXCEPT !.err = "UnpicklingError"]
    ELSE ReadKeys(self, file.data, 1)

\* the dict save_data pickles
Bundle(self) ==
    [k \in Elems(Keys) |-> self[k]]

\* DataLoader.save_data: tests path, writes self.data_path
SaveData(files, self, self_data_path, path) ==
    IF files[path].kind = "none"
    THEN [files EXCEPT ![self_data_path] = PickleFile(Bundle(self))]
    ELSE files

\* ---------------------------------------------------------------- SEALoader
\* sea_data[:, 1:3] as floats
SEAFeatures(rows) == [i \in DOMAIN rows |-> <<RatOfInt(rows[i][2]), RatOfInt(rows[i][3])>>]

\* data[:, -1]
LastColumn(rows) == [i \in DOMAIN rows |-> rows[i][Len(rows[i])]]

\* np.unique, as a set
Unique(v) == Elems(v)

\* SEAFromRaw with the class inventory taken after the split
SEAFromRaw_ClassesAfterSplit(self, rows, percentage) ==
    LET s0 == [self EXCEPT !.X = Some(SEAFeatures(rows)),
                           !.y = Some(LastColumn(rows))]
        s1 == SplitData(s0, percentage)
        s2 == IF s1.err = "none" THEN Normalization(s1) ELSE s1
    IN  IF s2.err # "none" THEN s2
        ELSE [s2 EXCEPT !.X = Some(MinMaxTransform(MinMaxFit(s2.X[1]), s2.X[1])),
                        !.list_classes = Some(Unique(s2.y[1])),
                        !.scaler_fits = s2.scaler_fits \cup {"X"}]

\* SEAFromRaw without the second scaler of the constructor
SEAFromRaw_NoSecondScaler(self, rows, percentage) ==
    LET s0 == [self EXCEPT !.X = Some(SEAFeatures(rows)),
                           !.y = Some(LastColumn(rows)),
                           !.list_classes = Some(Unique(LastColumn(rows)))]
        s1 == SplitData(s0, percentage)
    IN  IF s1.err = "none" THEN Normalization(s1) ELSE s1

\* the else branch of SEALoader.__init__, from the parsed records on
SEAFromRaw(self, rows, percentage) ==
    LET s0 == [self EXCEPT !.X = Some(SEAFeatures(rows)),
                           !.y = Some(LastColumn(rows)),
                           !.list_classes = Some(Unique(LastColumn(rows)))]
        s1 == SplitData(s0, percentage)
        s2 == IF s1.err = "none" THEN Normalization(s1) ELSE s1
    IN  IF s2.err # "none" THEN s2
        ELSE [s2 EXCEPT !.X = Some(MinMaxTransform(MinMaxFit(s2.X[1]), s2.X[1])),
                        !.scaler_fits = s2.scaler_fits \cup {"X"}]

\* pd.read_csv(self.data_path, ...) of a file that is absent or is not text
ReadCsvError(file) ==
    IF file.kind = "none" THEN "FileNotFoundError"
    ELSE IF file.kind # "csv" THEN "ParserError"
    ELSE "none"

\* the caller picks the parser variant that matches the dataset
RightParser(file, schema) == file.kind = "csv" => file.schema = schema

\* what a constructor leaves behind: an object, or an exception and no object
Constructed(self) == pc' = IF self.err = "none" THEN "ready" ELSE "failed"

SEALoader(use_pickle_for_loading) ==
    /\ pc = "new"
    /\ RightParser(fs[data_path], "SEA")
    /\ LET file == fs[data_path]
           self == IF use_pickle_for_loading THEN LoadFromPickle(Self, file)
                   ELSE IF ReadCsvError(file) # "none"
                        THEN [Self EXCEPT !.err = ReadCsvError(file)]
                        ELSE SEAFromRaw(Self, file.rows, percentage_historical_data)
       IN  Store(self) /\ Constructed(self)
    /\ last_call' = <<"SEALoader", use_pickle_for_loading>>
    /\ ret' = None
    /\ UNCHANGED <<fs, data_path, percentage_historical_data, symbolic_df, symbolic_encoder>>

\* DataLoader(...) itself: the base class is concrete, its constructor ends
\* with every array attribute None
\* ------------------------------------------------------------- UsenetLoader
\* a string cell of an object array; a numeric cell is a rational, so the
\* two kinds never compare equal
Str(s) == << s >>

IsStr(v) == Len(v) = 1

\* d of UsenetLoader.__init__ without the 'tt' entry
UsenetDict_NoTypo ==
    [no |-> RatOfInt(0), yes |-> RatOfInt(1), t |-> RatOfInt(1), f |-> RatOfInt(0)]

\* d = {'no': 0., 'yes': 1., 't': 1., 'f': 0., 'tt': 1}
UsenetDict ==
    [no |-> RatOfInt(0), yes |-> RatOfInt(1), t |-> RatOfInt(1), f |-> RatOfInt(0),
     tt |-> RatOfInt(1)]

\* usenet_df.replace(d).values: every cell of every column, the label's too
UsenetReplace(rows) ==
    [i \in DOMAIN rows |->
        [j \in DOMAIN rows[i] |->
            IF rows[i][j] \in DOMAIN UsenetDict THEN UsenetDict[rows[i][j]]
            ELSE Str(rows[i][j])]]

\* usenet_data[:, :-1]
AllButLastColumn(rows) == [i \in DOMAIN rows |-> SubSeq(rows[i], 1, Len(rows[i]) - 1)]

\* an object array holding both strings and numbers: sorting it, as np.unique
\* does, raises TypeError where str and float do not compare
MixedTypes(v) == \E i, j \in DOMAIN v : IsStr(v[i]) /\ ~IsStr(v[j])

\* the else branch of UsenetLoader.__init__, from the parsed records on;
\* mixed_sortable tells whether the interpreter orders str against float
UsenetFromRaw(self, rows, percentage, mixed_sortable) ==
    LET usenet_data == UsenetReplace(rows)
        s0 == [self EXCEPT !.X = Some(AllButLastColumn(usenet_data)),
                           !.y = Some(LastColumn(usenet_data))]
    IN  IF MixedTypes(s0.y[1]) /\ ~mixed_sortable
        THEN [s0 EXCEPT !.err = "TypeError"]
        ELSE SplitData([s0 EXCEPT !.list_classes = Some(Unique(s0.y[1]))], percentage)

UsenetLoader(use_pickle_for_loading) ==
    /\ pc = "new"
    /\ RightParser(fs[data_path], "Usenet")
    /\ \E mixed_sortable \in BOOLEAN :
         LET file == fs[data_path]
             self == IF use_pickle_for_loading THEN LoadFromPickle(Self, file)
                     ELSE IF ReadCsvError(file) # "none"
                          THEN [Self EXCEPT !.err = ReadCsvError(file)]
                          ELSE UsenetFromRaw(Self, file.rows, percentage_historical_data,
                                             mixed_sortable)
         IN  Store(self) /\ Constructed(self)
    /\ last_call' = <<"UsenetLoader", use_pickle_for_loading>>
    /\ ret' = None
    /\ UNCHANGED <<fs, data_path, percentage_historical_data, symbolic_df, symbolic_encoder>>

\* ------------------------------------------------------------- KDDCupLoader
\* The columns of HEADER_NAMES['KDD'] the model keeps, in file order: one
\* numeric column, the three symbolic feature columns, one of the two
\* columns the constructor drops, and the label.
KDDHeader == <<"duration", "protocol_type", "service", "flag", "num_outbound_cmds", "label">>

\* the kept column names in sorted order, as Index.difference returns them
KDDSortedColumns == <<"duration", "flag", "label", "protocol_type", "service">>

\* symbolic, in the order of the list in KDDCupLoader.__init__
Symbolic == <<"protocol_type", "service", "flag", "label">>

\* the strings of the symbolic columns, in sorted order
SymbolOrder == <<"S0", "SF", "http", "normal.", "smurf.", "tcp", "udp">>

\* columns.difference(excluded): the remaining names, sorted
Difference(columns, excluded) ==
    LET Keep(c) == c \in columns /\ c \notin excluded
    IN  SelectSeq(KDDSortedColumns, Keep)

ColumnIndex(c) == CHOOSE k \in DOMAIN KDDHeader : KDDHeader[k] = c

\* pd.read_csv(..., names=HEADER_NAMES['KDD']) then drop(useless_features):
\* a frame is a function from column name to column
KDDFrame(rows) ==
    [c \in Elems(KDDHeader) \ {"num_outbound_cmds"} |->
        [i \in DOMAIN rows |->
            IF c \in Elems(Symbolic) THEN Str(rows[i][ColumnIndex(c)])
            ELSE RatOfInt(rows[i][ColumnIndex(c)])]]

\* df[columns].values
FrameValues(df, columns) ==
    [i \in DOMAIN df["label"] |-> [j \in DOMAIN columns |-> df[columns[j]][i]]]

\* LabelEncoder().fit(column).classes_: the distinct strings, sorted
Classes(column) ==
    LET Present(v) == Str(v) \in Elems(column)
    IN  SelectSeq(SymbolOrder, Present)

\* LabelEncoder.transform: the index of each string in classes_
LabelTransform(classes, column) ==
    [i \in DOMAIN column |->
        RatOfInt((CHOOSE k \in DOMAIN classes : Str(classes[k]) = column[i]) - 1)]

\* LabelEncoder.inverse_transform
LabelInverseTransform(classes, column) ==
    [i \in DOMAIN column |-> Str(classes[column[i][1] + 1])]

\* one row of pd.get_dummies(df[columns]): per column, one indicator per class
RECURSIVE DummyRow(_, _, _)
DummyRow(df, columns, i) ==
    IF columns = << >> THEN << >>
    ELSE LET classes == Classes(df[Head(columns)])
         IN  [k \in DOMAIN classes |->
                 IF df[Head(columns)][i] = Str(classes[k]) THEN RatOfInt(1) ELSE RatOfInt(0)]
             \o DummyRow(df, Tail(columns), i)

\* KDDCupLoader.__encode_symbolic_df: the fitted encoders and the encoded frame
EncodeSymbolicDf(df) ==
    [encoder |-> [c \in DOMAIN df |-> Classes(df[c])],
     frame |-> [c \in DOMAIN df |-> LabelTransform(Classes(df[c]), df[c])]]

\* the frame inverse_encode_symbolic_df computes
InverseEncodeSymbolicDf(df, encoder) ==
    [c \in DOMAIN df |-> LabelInverseTransform(encoder[c], df[c])]

\* the else branch of KDDCupLoader.__init__, from the parsed records on;
\* the result carries the two attributes of the subclass as well
KDDFromRaw(self, rows, percentage, dummies) ==
    LET kdd_df == KDDFrame(rows)
        raw_symbolic == [c \in Elems(Symbolic) |-> kdd_df[c]]
    IN  IF dummies
        THEN LET without_label == Difference(Elems(Symbolic), {"label"})
                 non_categorical == FrameValues(kdd_df, Difference(DOMAIN kdd_df, Elems(Symbolic)))
                 label == raw_symbolic["label"]
                 s0 == [self EXCEPT
                          !.X = Some([i \in DOMAIN rows |->
                                        non_categorical[i] \o DummyRow(raw_symbolic, without_label, i)]),
                          !.y = Some(LabelTransform(Classes(label), label))]
                 s1 == SplitData([s0 EXCEPT !.list_classes = Some(Unique(s0.y[1]))], percentage)
                 s2 == IF s1.err = "none" THEN Normalization(s1) ELSE s1
             IN  [self |-> s2, symbolic_df |-> Some(raw_symbolic), symbolic_encoder |-> None]
        ELSE LET enc == EncodeSymbolicDf(raw_symbolic)
                 encoded_df == [c \in DOMAIN kdd_df |->
                                  IF c \in Elems(Symbolic) THEN enc.frame[c] ELSE kdd_df[c]]
                 s0 == [self EXCEPT
                          !.X = Some(FrameValues(encoded_df, Difference(DOMAIN encoded_df, {"label"}))),
                          !.y = Some(encoded_df["label"])]
                 s1 == SplitData([s0 EXCEPT !.list_classes = Some(Unique(s0.y[1]))], percentage)
             IN  [self |-> s1, symbolic_df |-> Some(enc.frame), symbolic_encoder |-> Some(enc.encoder)]

KDDCupLoader(use_pickle_for_loading, dummies) ==
    /\ pc = "new"
    /\ RightParser(fs[data_path], "KDD")
    /\ LET file == fs[data_path]
           none == [symbolic_df |-> None, symbolic_encoder |-> None]
           obj == IF use_pickle_for_loading
                  THEN [self |-> LoadFromPickle(Self, file)] @@ none
                  ELSE IF ReadCsvError(file) # "none"
                       THEN [self |-> [Self EXCEPT !.err = ReadCsvError(file)]] @@ none
                       ELSE KDDFromRaw(Self, file.rows, percentage_historical_data, dummies)
       IN  /\ Store(obj.self)
           /\ Constructed(obj.self)
           /\ symbolic_df' = obj.symbolic_df
           /\ symbolic_encoder' = obj.symbolic_encoder
    /\ last_call' = <<"KDDCupLoader", use_pickle_for_loading, dummies>>
    /\ ret' = None
    /\ UNCHANGED <<fs, data_path, percentage_historical_data>>

\* KDDCupLoader.inverse_encode_symbolic_df: apply builds the decoded frame,
\* which is neither assigned nor returned
inverse_encode_symbolic_df ==
    /\ pc = "ready"
    /\ IF symbolic_df = None \/ symbolic_encoder = None
       THEN err' = "AttributeError"
       ELSE LET decoded == InverseEncodeSymbolicDf(symbolic_df[1], symbolic_encoder[1])
            IN  /\ DOMAIN decoded = DOMAIN symbolic_df[1]
                /\ err' = "none"
    /\ ret' = None
    /\ last_call' = <<"inverse_encode_symbolic_df">>
    /\ UNCHANGED <<fs, data_path, percentage_historical_data, X, y, X_historical, y_historical,
                   list_classes, symbolic_df, symbolic_encoder, pc, scaler_fits, split_input>>

DataLoader ==
    /\ pc = "new"
    /\ pc' = "ready"
    /\ last_call' = <<"DataLoader", FALSE>>
    /\ UNCHANGED <<fs, data_path, percentage_historical_data, X, y, X_historical, y_historical,
                   list_classes, symbolic_df, symbolic_encoder, err, ret, scaler_fits, split_input>>

\* ------------------------------------------------- operations on a loader
split_data ==
    /\ pc = "ready"
    /\ Store(SplitData(Self, percentage_historical_data))
    /\ last_call' = <<"split_data">>
    /\ ret' = None
    /\ UNCHANGED <<fs, data_path, percentage_historical_data, symbolic_df, symbolic_encoder, pc>>

normalization ==
    /\ pc = "ready"
    /\ Store(Normalization(Self))
    /\ last_call' = <<"normalization">>
    /\ ret' = None
    /\ UNCHANGED <<fs, data_path, percentage_historical_data, symbolic_df, symbolic_encoder, pc>>

save_data(path) ==
    /\ pc = "ready"
    /\ fs' = SaveData(fs, Self, data_path, path)
    /\ last_call' = <<"save_data", path>>
    /\ err' = "none"
    /\ ret' = None
    /\ UNCHANGED <<data_path, percentage_historical_data, X, y, X_historical, y_historical,
                   list_classes, symbolic_df, symbolic_encoder, pc, scaler_fits, split_input>>

load_from_pickle ==
    /\ pc = "ready"
    /\ Store(LoadFromPickle(Self, fs[data_path]))
    /\ last_call' = <<"load_from_pickle">>
    /\ ret' = None
    /\ UNCHANGED <<fs, data_path, percentage_historical_data, symbolic_df, symbolic_encoder, pc>>

get_classes ==
    /\ pc = "ready"
    /\ ret' = list_classes
    /\ last_call' = <<"get_classes">>
    /\ err' = "none"
    /\ UNCHANGED <<fs, data_path, percentage_historical_data, X, y, X_historical, y_historical,
                   list_classes, symbolic_df, symbolic_encoder, pc, scaler_fits, split_input>>

return_data ==
    /\ pc = "ready"
    /\ ret' = <<X, y>>
    /\ last_call' = <<"return_data">>
    /\ err' = "none"
    /\ UNCHANGED <<fs, data_path, percentage_historical_data, X, y, X_historical, y_historical,
                   list_classes, symbolic_df, symbolic_encoder, pc, scaler_fits, split_input>>

return_historical_data ==
    /\ pc = "ready"
    /\ ret' = <<X_historical, y_historical>>
    /\ last_call' = <<"return_historical_data">>
    /\ err' = "none"
    /\ UNCHANGED <<fs, data_path, percentage_historical_data, X, y, X_historical, y_historical,
                   list_classes, symbolic_df, symbolic_encoder, pc, scaler_fits, split_input>>

\* ------------------------------------------------------------ environments
\* percentage_historical_data, as << numerator, denominator >>
Percentages == {<<1, 4>>, <<1, 2>>, <<3, 4>>}

\* records of the SEA file: attribute_1, attribute_2, attribute_3, label
SEARecords == {<<0, a2, 0, l>> : a2 \in 0..2, l \in 0..1}

\* a cache written earlier, and the same file with some keys missing
CachedBundle ==
    [X |-> Some(<<<<RatOfInt(0), RatOfInt(1)>>, <<RatOfInt(2), RatOfInt(0)>>>>),
     y |-> Some(<<0, 1>>),
     X_historical |-> Some(<<<<RatOfInt(1), RatOfInt(1)>>>>),
     y_historical |-> Some(<<1>>)]

CacheFiles == {PickleFile([k \in K |-> CachedBundle[k]]) : K \in SUBSET Elems(Keys)}

\* the loader after DataLoader.__init__, before the variant's own constructor
NewLoader ==
    /\ data_path = "data"
    /\ percentage_historical_data \in Percentages
    /\ X = None
    /\ y = None
    /\ X_historical = None
    /\ y_historical = None
    /\ list_classes = None
    /\ symbolic_df = None
    /\ symbolic_encoder = None
    /\ pc = "new"
    /\ last_call = <<"__init__">>
    /\ err = "none"
    /\ ret = None
    /\ scaler_fits = {}
    /\ split_input = None

\* records of the SEA file with both selected feature columns varying
SEAFeatureRecords == {<<0, a2, a3, 0>> : a2 \in 0..2, a3 \in 0..2}

\* records of a usenet file without the t/f/tt spellings
UsenetShortRecords == {<<w, l>> : w \in {"yes", "no"}, l \in {"labelA", "yes", "no"}}

\* records of the usenet file: one word-presence column and the label
UsenetRecords == {<<w, l>> : w \in {"yes", "no", "t", "f", "tt"}, l \in {"labelA", "yes", "no"}}

\* records of the KDD file, over the columns of KDDHeader
KDDRecords ==
    {<<d, p, "http", f, 0, l>> :
        d \in 0..1, p \in {"tcp", "udp"}, f \in {"SF", "S0"}, l \in {"normal.", "smurf."}}

\* ---------------------------------------------------------- specifications
\* the base loader with the continuous-feature and binary-indicator variants
Init ==
    /\ NewLoader
    /\ fs \in {[data |-> d, cache |-> c] :
                  d \in {NoFile} \cup CacheFiles
                        \cup {CsvFile("SEA", r) : r \in SeqsOf(SEARecords, 1, MaxN)}
                        \cup {CsvFile("Usenet", r) : r \in SeqsOf(UsenetShortRecords, 1, MaxN)},
                  c \in {NoFile, PickleFile(CachedBundle)}}

Next ==
    \/ DataLoader
    \/ \E b \in BOOLEAN : SEALoader(b)
    \/ \E b \in BOOLEAN : UsenetLoader(b)
    \/ split_data
    \/ normalization
    \/ \E p \in Paths : save_data(p)
    \/ load_from_pickle
    \/ get_classes
    \/ return_data
    \/ return_historical_data

Spec == Init /\ [][Next]_vars

\* the continuous-feature variant on files with varying features
InitSEA ==
    /\ NewLoader
    /\ fs \in {[data |-> CsvFile("SEA", r), cache |-> NoFile] : r \in SeqsOf(SEAFeatureRecords, 1, MaxSEA)}

NextSEA ==
    \/ SEALoader(FALSE)
    \/ get_classes
    \/ return_data
    \/ return_historical_data

SpecSEA == InitSEA /\ [][NextSEA]_vars

\* the binary-indicator variant on files over the whole token vocabulary
InitUsenet ==
    /\ NewLoader
    /\ fs \in {[data |-> CsvFile("Usenet", r), cache |-> NoFile] : r \in SeqsOf(UsenetRecords, 1, MaxUsenet)}

NextUsenet ==
    \/ \E b \in BOOLEAN : UsenetLoader(b)
    \/ split_data
    \/ get_classes

SpecUsenet == InitUsenet /\ [][NextUsenet]_vars

\* the categorical variant
InitKDD ==
    /\ NewLoader
    /\ fs \in {[data |-> d, cache |-> NoFile] :
                  d \in {PickleFile(CachedBundle)} \cup {CsvFile("KDD", r) : r \in SeqsOf(KDDRecords, 1, MaxKDD)}}

NextKDD ==
    \/ \E b, d \in BOOLEAN : KDDCupLoader(b, d)
    \/ inverse_encode_symbolic_df
    \/ split_data
    \/ get_classes

SpecKDD == InitKDD /\ [][NextKDD]_vars

\* ------------------------------------------------------------------ claims
Fields == <<X, y, X_historical, y_historical>>

\* C2: no min-max scaler is ever fitted on stream data; every scaler of a
\* loader is fitted on the historical partition only.
C2_NeverFitOnStream == scaler_fits \subseteq {"X_historical"}

\* C3: no call to save ever changes the content of a file that already
\* exists (write-once cache).
C3_WriteOnce ==
    [][last_call'[1] = "save_data" =>
         \A p \in Paths : fs[p].kind # "none" => fs'[p] = fs[p]]_vars

\* C4: after save(path) on a path where no file exists, a file exists at
\* that path and holds the saving loader's X, y, X_historical, y_historical,
\* which is what a load from that path then yields.
C4_RoundTrip ==
    [][\A p \in Paths :
         (last_call' = <<"save_data", p>> /\ fs[p].kind = "none") =>
             /\ fs'[p].kind = "pickle"
             /\ \A k \in Elems(Keys) : k \in DOMAIN fs'[p].data
             /\ <<fs'[p].data.X, fs'[p].data.y,
                  fs'[p].data.X_historical, fs'[p].data.y_historical>> = Fields]_vars

\* C5: load is all-or-nothing: it sets all four fields from the file, or it
\* fails and leaves the four fields as they were before the call.
C5_LoadAllOrNothing ==
    [][last_call'[1] = "load_from_pickle" =>
         \/ /\ err' = "none"
            /\ Fields' = <<fs[data_path].data.X, fs[data_path].data.y,
                           fs[data_path].data.X_historical, fs[data_path].data.y_historical>>
         \/ /\ err' # "none"
            /\ Fields' = Fields]_vars

\* the lifecycle states of the spec's design note
LifecycleState ==
    IF X = None THEN "Unloaded"
    ELSE IF X_historical = None THEN "Loaded"
    ELSE IF scaler_fits = {} THEN "Split"
    ELSE "Normalized"

\* C10: split succeeds only from Loaded and normalize only from Split; a call
\* from any other state fails and leaves X, y, X_historical, y_historical
\* unchanged.
C10_StateErrors ==
    [][/\ (last_call' = <<"split_data">> /\ LifecycleState # "Loaded") =>
              (err' # "none" /\ Fields' = Fields)
       /\ (last_call' = <<"normalization">> /\ LifecycleState # "Split") =>
              (err' # "none" /\ Fields' = Fields)]_vars

\* the label of a usenet record once the constructor has finalized it
FinalUsenetLabel(l) ==
    IF l \in {"yes", "t", "tt"} THEN <<1, 1>>
    ELSE IF l \in {"no", "f"} THEN <<0, 1>>
    ELSE << l >>

\* C6: the class inventory of a loader built from a raw file is the set of
\* distinct (finalized) labels of all N original records, get_classes
\* returns it, and no later split, normalize, save or load on the instance
\* changes it.
C6_ClassInventory ==
    /\ [](last_call = <<"SEALoader", FALSE>> /\ pc = "ready" =>
            list_classes = Some({fs[data_path].rows[i][4] : i \in DOMAIN fs[data_path].rows}))
    /\ [](last_call = <<"UsenetLoader", FALSE>> /\ pc = "ready" =>
            list_classes = Some({FinalUsenetLabel(fs[data_path].rows[i][2]) :
                                    i \in DOMAIN fs[data_path].rows}))
    /\ [](last_call = <<"get_classes">> => ret = list_classes)
    /\ [][pc = "ready" => list_classes' = list_classes]_vars

\* C6 witness: get_classes, called after a later split, returns two classes
\* of which the stream partition holds only one.
C6_Witness ==
    /\ last_call = <<"get_classes">>
    /\ ret # None
    /\ Cardinality(ret[1]) = 2
    /\ split_input # None /\ split_input[1][1] # None /\ Len(split_input[1][1][1]) = 1
    /\ y # None /\ Elems(y[1]) # ret[1]

InUnitInterval(v) == 0 <= v[1] /\ v[1] <= v[2]

AllInUnitInterval(M) == \A i \in DOMAIN M : \A j \in DOMAIN M[i] : InUnitInterval(M[i][j])

SplitX == split_input[1][1][1]

SplitY == split_input[1][2][1]

\* C1: after split_data on a dataset of N >= 1 records, the historical
\* partition is the first floor(percentage*N) records, the stream partition
\* has N - floor(percentage*N) - 1 records, and historical ++ [the record at
\* index floor(percentage*N)] ++ stream is the original sequence, for X and
\* for y.
C1_SplitPartition ==
    (/\ last_call[1] \in {"UsenetLoader", "split_data"}
     /\ err = "none"
     /\ split_input # None
     /\ Len(SplitX) >= 1) =>
        LET N == Len(SplitX)
            n == (percentage_historical_data[1] * N) \div percentage_historical_data[2]
        IN  /\ Len(SplitY) = N
            /\ X_historical[1] = [i \in 1..n |-> SplitX[i]]
            /\ y_historical[1] = [i \in 1..n |-> SplitY[i]]
            /\ Len(X[1]) = N - n - 1
            /\ Len(y[1]) = N - n - 1
            /\ X_historical[1] \o <<SplitX[n + 1]>> \o X[1] = SplitX
            /\ y_historical[1] \o <<SplitY[n + 1]>> \o y[1] = SplitY

\* C1 witness: three distinct records split at one half: one historical, one
\* dropped, one stream.
C1_Witness ==
    /\ last_call = <<"UsenetLoader", FALSE>>
    /\ err = "none"
    /\ percentage_historical_data = <<1, 2>>
    /\ Len(SplitX) = 3
    /\ Cardinality(Elems(fs[data_path].rows)) = 3
    /\ Len(X_historical[1]) = 1
    /\ Len(X[1]) = 1

\* the full arrays the constructor parsed: what split_data started from, or
\* X and y themselves when the constructor stopped before the split
ParsedX == IF split_input # None THEN SplitX ELSE X[1]

ParsedY == IF split_input # None THEN SplitY ELSE y[1]

AfterUsenetParse ==
    /\ last_call = <<"UsenetLoader", FALSE>>
    /\ err \in {"none", "TypeError"}

\* C7 (as claimed): every feature token 'yes', 't', 'tt' maps to 1.0 and
\* 'no', 'f' to 0.0, and the label of every record is kept exactly as in the
\* raw record, whatever its value.
C7_LabelVerbatim ==
    AfterUsenetParse =>
        \A i \in DOMAIN fs[data_path].rows :
            LET raw == fs[data_path].rows[i] IN
            /\ raw[1] \in {"yes", "t", "tt"} => ParsedX[i][1] = <<1, 1>>
            /\ raw[1] \in {"no", "f"} => ParsedX[i][1] = <<0, 1>>
            /\ ParsedY[i] = <<raw[2]>>

\* C7 (amended): feature tokens map as claimed; a label that is itself one
\* of the five tokens is replaced by the same mapping, any other label is
\* kept exactly as in the raw record.
C7_LabelReplacedLikeFeatures ==
    AfterUsenetParse =>
        \A i \in DOMAIN fs[data_path].rows :
            LET raw == fs[data_path].rows[i] IN
            /\ raw[1] \in {"yes", "t", "tt"} => ParsedX[i][1] = <<1, 1>>
            /\ raw[1] \in {"no", "f"} => ParsedX[i][1] = <<0, 1>>
            /\ raw[2] \in {"yes", "t", "tt"} => ParsedY[i] = <<1, 1>>
            /\ raw[2] \in {"no", "f"} => ParsedY[i] = <<0, 1>>
            /\ raw[2] \notin {"yes", "t", "tt", "no", "f"} => ParsedY[i] = <<raw[2]>>

\* C7 witness: a constructed loader whose file has the typo token as a
\* feature, a label that is a token and a label that is not.
C7_Witness ==
    /\ AfterUsenetParse
    /\ Len(fs[data_path].rows) = 2
    /\ fs[data_path].rows[1] = <<"tt", "yes">>
    /\ fs[data_path].rows[2] = <<"f", "labelA">>
    /\ ParsedY = <<<<1, 1>>, <<"labelA">>>>

\* the symbolic columns as they stand in the raw file
RawSymbolic ==
    [c \in Elems(Symbolic) |->
        [i \in DOMAIN fs[data_path].rows |-> <<fs[data_path].rows[i][ColumnIndex(c)]>>]]

\* C8: in ordinal-encoding mode, after inverse_encode_symbolic_df the
\* symbolic columns the loader holds, or the ones the call returned, are the
\* raw strings, row by row.
C8_InverseEncodeRecovers ==
    (last_call = <<"inverse_encode_symbolic_df">> /\ err = "none") =>
        \/ symbolic_df = Some(RawSymbolic)
        \/ ret = Some(RawSymbolic)

====
